---- MODULE Spec2Model ----
(***************************************************************************)
(* Model of rate.py: one pass of the rating script.  main() loads the      *)
(* rubric text from a Notion page, queries the responses database for the  *)
(* pages whose Status is "To be Rated", and for each page extracts the     *)
(* prompt and the response, asks the generative-text service for a rating  *)
(* object and writes the scores (or Status = Error) back to the page.      *)
(*                                                                         *)
(* Python strings that the code inspects (rubric text, rating keys,        *)
(* property names) are sequences of one-character strings.  A value that   *)
(* may be None is a record [some, val].  An external call either succeeds  *)
(* or raises; which of the two is chosen nondeterministically.             *)
(***************************************************************************)
EXTENDS Integers, Sequences, FiniteSets, TLC

\* ------------------------------------------------------------------------
\* Bounds of the model
\* ------------------------------------------------------------------------
MaxBlocks == 2      \* blocks on the standards page
MaxRuns == 2        \* rich-text runs in one block
MaxRecords == 3     \* pages in the responses database
MaxKeys == 2        \* keys in a rating object

\* ------------------------------------------------------------------------
\* Optional values (Python None)
\* ------------------------------------------------------------------------
None == [some |-> FALSE, val |-> <<>>]
Some(x) == [some |-> TRUE, val |-> x]

\* ------------------------------------------------------------------------
\* Strings
\* ------------------------------------------------------------------------
Lowercase == <<"a","b","c","d","e","f","g","h","i","j","k","l","m",
               "n","o","p","q","r","s","t","u","v","w","x","y","z">>
Uppercase == <<"A","B","C","D","E","F","G","H","I","J","K","L","M",
               "N","O","P","Q","R","S","T","U","V","W","X","Y","Z">>
Whitespace == {" ", "\n", "\t"}

Range(s) == {s[n] : n \in DOMAIN s}
IndexOf(s, c) == CHOOSE n \in DOMAIN s : s[n] = c
IsLower(c) == c \in Range(Lowercase)
IsUpper(c) == c \in Range(Uppercase)
IsCased(c) == IsLower(c) \/ IsUpper(c)
Upper(c) == IF IsLower(c) THEN Uppercase[IndexOf(Lowercase, c)] ELSE c
Lower(c) == IF IsUpper(c) THEN Lowercase[IndexOf(Uppercase, c)] ELSE c

\* sep.join(parts)
RECURSIVE Join(_, _)
Join(parts, sep) ==
    IF parts = <<>> THEN <<>>
    ELSE IF Len(parts) = 1 THEN parts[1]
    ELSE parts[1] \o sep \o Join(Tail(parts), sep)

\* str.strip(): drop leading and trailing whitespace
RECURSIVE LStrip(_)
LStrip(s) ==
    IF s # <<>> /\ s[1] \in Whitespace THEN LStrip(Tail(s)) ELSE s
RECURSIVE RStrip(_)
RStrip(s) ==
    IF s # <<>> /\ s[Len(s)] \in Whitespace
    THEN RStrip(SubSeq(s, 1, Len(s) - 1)) ELSE s
Strip(s) == RStrip(LStrip(s))

\* str.endswith(suffix)
EndsWith(s, suffix) ==
    /\ Len(s) >= Len(suffix)
    /\ SubSeq(s, Len(s) - Len(suffix) + 1, Len(s)) = suffix

\* str.replace(old, new) for one-character old and new
Replace(s, old, new) == [n \in DOMAIN s |-> IF s[n] = old THEN new ELSE s[n]]

\* str.title(): a cased character is upper-cased when the character before
\* it is not cased (or there is none) and lower-cased otherwise; an uncased
\* character is kept.
Title(s) ==
    [n \in DOMAIN s |->
        IF ~IsCased(s[n]) THEN s[n]
        ELSE IF n > 1 /\ IsCased(s[n - 1]) THEN Lower(s[n])
        ELSE Upper(s[n])]

\* ------------------------------------------------------------------------
\* The standards page: a list of blocks.  A textual block carries a
\* rich_text list of runs in the sub-object keyed by its type; each run is
\* modelled by its plain_text.
\* ------------------------------------------------------------------------
Texts == { <<" ">>, <<"a">>, <<"b">> }

RECURSIVE SeqsUpTo(_, _)
SeqsUpTo(S, n) ==
    IF n = 0 THEN { <<>> }
    ELSE LET shorter == SeqsUpTo(S, n - 1)
         IN  shorter \cup { Append(s, x) : s \in shorter, x \in S }

Blocks ==
    { [type |-> "divider", textual |-> FALSE, rich_text |-> <<>>] }
    \cup { [type |-> "paragraph", textual |-> TRUE, rich_text |-> runs] :
             runs \in SeqsUpTo(Texts, MaxRuns) }

BlockInputs == SeqsUpTo(Blocks, MaxBlocks)

\* Pages the driver is run against: no blocks, only blank text, a rubric.
SampleBlocks ==
    { <<>>,
      << [type |-> "paragraph", textual |-> TRUE, rich_text |-> << <<" ">> >>] >>,
      << [type |-> "paragraph", textual |-> TRUE, rich_text |-> << <<"a">> >>] >> }

\* Fault: each block's runs are put before the text collected so far.
RECURSIVE CollectText_Prepending(_)
CollectText_Prepending(bs) ==
    IF bs = <<>> THEN <<>>
    ELSE CollectText_Prepending(Tail(bs))
         \o (IF bs[1].textual THEN bs[1].rich_text ELSE <<>>)

\* rate.py:32-38, the accumulation of every run's plain_text
RECURSIVE CollectText(_)
CollectText(bs) ==
    IF bs = <<>> THEN <<>>
    ELSE (IF bs[1].textual THEN bs[1].rich_text ELSE <<>>)
         \o CollectText(Tail(bs))

\* rate.py:25-50
get_rating_criteria(bs, listFails) ==
    IF listFails THEN None
    ELSE LET full_criteria == Join(CollectText(bs), <<"\n">>)
         IN  IF Strip(full_criteria) = <<>> THEN None
             ELSE Some(full_criteria)

\* ------------------------------------------------------------------------
\* The responses database: pages 1..MaxRecords, each with a Status and a
\* properties object, which the query returns.  A property is a function
\* from its type key ("title", "rich_text") to a list of runs, each run
\* modelled by its plain_text.
\* ------------------------------------------------------------------------
Ids == 1 .. MaxRecords
Statuses == { "To be Rated", "Rated", "Error" }

PromptOk == "Prompt" :> ("title" :> << "q" >>)
PromptWrongKey == "Prompt" :> ("rich_text" :> << "q" >>)
PromptEmpty == "Prompt" :> ("title" :> << >>)
ResponseOk == "AI Response" :> ("rich_text" :> << "r" >>)
ResponseWrongKey == "AI Response" :> ("title" :> << "r" >>)
ResponseEmpty == "AI Response" :> ("rich_text" :> << >>)

PropertyShapes ==
    { PromptOk @@ ResponseOk,
      ResponseOk,                       \* no Prompt field
      PromptWrongKey @@ ResponseOk,
      PromptEmpty @@ ResponseOk,
      PromptOk,                         \* no AI Response field
      PromptOk @@ ResponseWrongKey,
      PromptOk @@ ResponseEmpty }

\* rate.py:56-59, the filtered query: the pages whose Status equals
\* "To be Rated", as page objects, in the database's order
RECURSIVE QueryFrom(_, _, _)
QueryFrom(n, st, props) ==
    IF n > MaxRecords THEN <<>>
    ELSE (IF st[n] = "To be Rated"
          THEN << [id |-> n, properties |-> props[n]] >> ELSE <<>>)
         \o QueryFrom(n + 1, st, props)
Query(st, props) == QueryFrom(1, st, props)

\* Fault: the except branch hands back the query's pages instead of [].
get_unrated_responses_KeepsResults(results, queryFails) == results

\* rate.py:52-64
get_unrated_responses(results, queryFails) ==
    IF queryFails THEN <<>> ELSE results

\* Fault: the first run is not required; an empty list reads as "".
Subscript_NoIndexError(props, field, key) ==
    IF field \notin DOMAIN props THEN [raised |-> "KeyError", text |-> ""]
    ELSE IF key \notin DOMAIN props[field] THEN [raised |-> "KeyError", text |-> ""]
    ELSE IF Len(props[field][key]) = 0 THEN [raised |-> "none", text |-> ""]
    ELSE [raised |-> "none", text |-> props[field][key][1]]

\* rate.py:134-135, the two subscript chains
\*   page["properties"]["Prompt"]["title"][0]["plain_text"]
\*   page["properties"]["AI Response"]["rich_text"][0]["plain_text"]
\* A missing key raises KeyError, an empty list IndexError.
Subscript(props, field, key) ==
    IF field \notin DOMAIN props THEN [raised |-> "KeyError", text |-> ""]
    ELSE IF key \notin DOMAIN props[field] THEN [raised |-> "KeyError", text |-> ""]
    ELSE IF Len(props[field][key]) = 0 THEN [raised |-> "IndexError", text |-> ""]
    ELSE [raised |-> "none", text |-> props[field][key][1]]

Extract(page) ==
    LET user_prompt == Subscript(page.properties, "Prompt", "title")
        ai_response == Subscript(page.properties, "AI Response", "rich_text")
    IN  IF user_prompt.raised # "none"
        THEN [raised |-> user_prompt.raised, user_prompt |-> "", ai_response |-> ""]
        ELSE [raised |-> ai_response.raised,
              user_prompt |-> user_prompt.text, ai_response |-> ai_response.text]

\* ------------------------------------------------------------------------
\* Rating objects: what json.loads returns for the service's reply, a dict
\* in key order.  A value keeps its JSON type: t is "int", "float", "bool"
\* or "str", v its text.
\* ------------------------------------------------------------------------
KeyAScore == <<"a","_","s","c","o","r","e">>
KeyUpperAScore == <<"A","_","s","c","o","r","e">>
KeyBScore == <<"b","_","s","c","o","r","e">>
KeyScore == <<"s","c","o","r","e">>
KeyFoo == <<"f","o","o">>
KeyNotes == <<"e","v","a","l","u","a","t","i","o","n","_","n","o","t","e","s">>
Keys == { KeyAScore, KeyUpperAScore, KeyBScore, KeyScore, KeyFoo, KeyNotes }

ScoreSuffix == <<"_","s","c","o","r","e">>
NameNotes == <<"E","v","a","l","u","a","t","i","o","n"," ","N","o","t","e","s">>
NameStatus == <<"S","t","a","t","u","s">>

Int4 == [t |-> "int", v |-> "4"]
Float45 == [t |-> "float", v |-> "4.5"]
BoolTrue == [t |-> "bool", v |-> "true"]
StrOk == [t |-> "str", v |-> "ok"]
Str(x) == [t |-> "str", v |-> x]
Values == { Int4, Float45, BoolTrue, StrOk }

Items == { [k |-> key, v |-> value] : key \in Keys, value \in Values }
DistinctKeys(d) == \A m, n \in DOMAIN d : m # n => d[m].k # d[n].k
RatingObjects == { d \in SeqsUpTo(Items, MaxKeys) : DistinctKeys(d) }

\* Rating objects the driver is run against: the empty object, an object
\* with neither a score nor notes, a full rating, scores without notes.
SampleRatings ==
    { << >>,
      << [k |-> KeyFoo, v |-> StrOk] >>,
      << [k |-> KeyAScore, v |-> Int4], [k |-> KeyNotes, v |-> StrOk] >>,
      << [k |-> KeyBScore, v |-> Float45] >> }

HasKey(d, key) == \E n \in DOMAIN d : d[n].k = key
\* dict.get(key, default)
Get(d, key, default) ==
    IF HasKey(d, key) THEN d[CHOOSE n \in DOMAIN d : d[n].k = key].v
    ELSE default

\* isinstance(value, (int, float)); bool is a subclass of int
IsIntOrFloat(value) == value.t \in { "int", "float", "bool" }

\* What the generative-text service does with one request: raises, returns
\* text that json.loads rejects, or returns the text of a JSON object.
ServiceError == [kind |-> "error", obj |-> << >>]
NotJson == [kind |-> "text", obj |-> << >>]
JsonReply(d) == [kind |-> "json", obj |-> d]
ServiceReplies == { ServiceError, NotJson } \cup { JsonReply(d) : d \in SampleRatings }

\* rate.py:81-94
get_rating_from_ai(reply) ==
    IF reply.kind = "json" THEN Some(reply.obj) ELSE None

\* Python truth value of an optional str, list or dict: None and the empty
\* container are false (rate.py:122, 127, 140)
Truthy(x) == x.some /\ x.val # << >>

\* ------------------------------------------------------------------------
\* Result writer
\* ------------------------------------------------------------------------
ErrorProps == NameStatus :> [kind |-> "select", val |-> Str("Error")]

\* rate.py:98-101
BaseProps(rating_data) ==
    (NameNotes :> [kind |-> "rich_text", val |-> Get(rating_data, KeyNotes, Str("N/A"))])
    @@ (NameStatus :> [kind |-> "select", val |-> Str("Rated")])

\* rate.py:105
IsScore(item) == EndsWith(item.k, ScoreSuffix) /\ IsIntOrFloat(item.v)

\* rate.py:107
PropName(key) == Title(Replace(key, "_", " "))

\* rate.py:104-108, the loop over rating_data.items()
RECURSIVE AddScores(_, _)
AddScores(props, items) ==
    IF items = << >> THEN props
    ELSE AddScores(
            IF IsScore(items[1])
            THEN (PropName(items[1].k) :> [kind |-> "number", val |-> items[1].v]) @@ props
            ELSE props,
            Tail(items))

properties_to_update(rating_data) == AddScores(BaseProps(rating_data), rating_data)

UpdateCall(page_id, props, ok) ==
    [op |-> "update", id |-> page_id, props |-> props, ok |-> ok]

\* Fault: the except block only logs; no Error update is made.
update_notion_page_NoFallback(page_id, rating_data, primaryOk, fallbackOk) ==
    [calls |-> << UpdateCall(page_id, properties_to_update(rating_data), primaryOk) >>,
     raised |-> FALSE]

\* rate.py:96-116: the primary update and, when it raises, the Error update
\* made inside the except block.  raised: an exception leaves the function.
update_notion_page(page_id, rating_data, primaryOk, fallbackOk) ==
    LET primary == UpdateCall(page_id, properties_to_update(rating_data), primaryOk)
    IN  IF primaryOk
        THEN [calls |-> << primary >>, raised |-> FALSE]
        ELSE [calls |-> << primary, UpdateCall(page_id, ErrorProps, fallbackOk) >>,
              raised |-> ~fallbackOk]

\* notion.pages.update against the store: a call that raises changes nothing
RECURSIVE ApplyCalls(_, _)
ApplyCalls(st, calls) ==
    IF calls = << >> THEN st
    ELSE ApplyCalls(
            IF calls[1].ok
            THEN [st EXCEPT ![calls[1].id] = calls[1].props[NameStatus].val.v]
            ELSE st,
            Tail(calls))

\* ------------------------------------------------------------------------
\* State
\* ------------------------------------------------------------------------
VARIABLES
    pc,                 \* position of main(): "start", "fetch", "extract",
                        \* "rate", "write", "done" (main returned) or
                        \* "crashed" (an exception left main)
    blocks,             \* the standards page's block list
    status,             \* the responses database: Status of each page
    criteria,           \* main's criteria
    responses_to_rate,  \* main's responses_to_rate
    idx,                \* position of the for loop in responses_to_rate
    rating,             \* main's rating
    log,                \* the external calls made so far, in order
    raised              \* the line whose exception left main, or "none"

vars == << pc, blocks, status, criteria, responses_to_rate, idx,
           rating, log, raised >>

ListCall(ok) == [op |-> "list", id |-> 0, ok |-> ok]
QueryCall(ok) == [op |-> "query", id |-> 0, ok |-> ok]
RateCall(page_id, reply) == [op |-> "rate", id |-> page_id, reply |-> reply]

\* Fault: the loop stays on the page it has just handled.
NextIndex_Retry(n) == n

\* for page in responses_to_rate: the position after the current one
NextIndex(n) == n + 1

\* rate.py:146, except (KeyError, IndexError)
Caught(exc) == exc \in { "KeyError", "IndexError" }

page_id == responses_to_rate[idx].id

\* The loop moves to the next page, or main returns after the last one
\* (rate.py:131, 150).
Continue ==
    /\ idx' = NextIndex(idx)
    /\ pc' = IF NextIndex(idx) > Len(responses_to_rate) THEN "done" ELSE "extract"
    /\ raised' = raised

\* An exception leaves main at the given line.
Crash(line) ==
    /\ pc' = "crashed"
    /\ raised' = line
    /\ idx' = idx

\* One notion.pages.update setting only Status = Error, made by main itself
\* outside any try block that catches its failure (rate.py:144, 148)
MarkError(line) ==
    \E ok \in BOOLEAN :
        LET call == UpdateCall(page_id, ErrorProps, ok)
        IN  /\ log' = Append(log, call)
            /\ status' = ApplyCalls(status, << call >>)
            /\ IF ok THEN Continue ELSE Crash(line)

Init ==
    /\ pc = "start"
    /\ blocks \in SampleBlocks
    /\ status \in [Ids -> Statuses]
    /\ criteria = None
    /\ responses_to_rate = << >>
    /\ idx = 0
    /\ rating = None
    /\ log = << >>
    /\ raised = "none"

\* rate.py:121-124
LoadCriteria ==
    /\ pc = "start"
    /\ \E listFails \in BOOLEAN :
          /\ criteria' = get_rating_criteria(blocks, listFails)
          /\ log' = Append(log, ListCall(~listFails))
    /\ pc' = IF Truthy(criteria') THEN "fetch" ELSE "done"
    /\ UNCHANGED << blocks, status, responses_to_rate, idx, rating, raised >>

\* rate.py:126-129
FetchUnrated ==
    /\ pc = "fetch"
    /\ \E queryFails \in BOOLEAN, props \in [Ids -> PropertyShapes] :
          /\ responses_to_rate' = get_unrated_responses(Query(status, props), queryFails)
          /\ log' = Append(log, QueryCall(~queryFails))
    /\ IF responses_to_rate' = << >>
       THEN pc' = "done" /\ idx' = idx
       ELSE pc' = "extract" /\ idx' = 1
    /\ UNCHANGED << blocks, status, criteria, rating, raised >>

\* rate.py:132-135 and, when the extraction raises, 146-148
Extracting ==
    /\ pc = "extract"
    /\ LET e == Extract(responses_to_rate[idx])
       IN  IF e.raised = "none"
           THEN /\ pc' = "rate"
                /\ UNCHANGED << status, idx, log, raised >>
           ELSE IF Caught(e.raised)
           THEN MarkError("main:148")
           ELSE Crash("main:134") /\ UNCHANGED << status, log >>
    /\ UNCHANGED << blocks, criteria, responses_to_rate, rating >>

\* rate.py:138
Rating ==
    /\ pc = "rate"
    /\ \E reply \in ServiceReplies :
          /\ rating' = get_rating_from_ai(reply)
          /\ log' = Append(log, RateCall(page_id, reply))
    /\ pc' = "write"
    /\ UNCHANGED << blocks, status, criteria, responses_to_rate, idx, raised >>

\* rate.py:140-144
Writing ==
    /\ pc = "write"
    /\ IF Truthy(rating)
       THEN \E primaryOk, fallbackOk \in BOOLEAN :
               LET r == update_notion_page(page_id, rating.val, primaryOk, fallbackOk)
               IN  /\ log' = log \o r.calls
                   /\ status' = ApplyCalls(status, r.calls)
                   /\ IF r.raised THEN Crash("update_notion_page:116") ELSE Continue
       ELSE MarkError("main:144")
    /\ UNCHANGED << blocks, criteria, responses_to_rate, rating >>

Next == LoadCriteria \/ FetchUnrated \/ Extracting \/ Rating \/ Writing

Spec == Init /\ [][Next]_vars

\* ------------------------------------------------------------------------
\* The criteria loader on every page of up to MaxBlocks blocks
\* ------------------------------------------------------------------------
InitCriteria ==
    /\ pc = "start"
    /\ blocks \in BlockInputs
    /\ status = [n \in Ids |-> "To be Rated"]
    /\ criteria = None
    /\ responses_to_rate = << >>
    /\ idx = 0
    /\ rating = None
    /\ log = << >>
    /\ raised = "none"

SpecCriteria == InitCriteria /\ [][LoadCriteria]_vars

\* ------------------------------------------------------------------------
\* The result writer on every rating object of up to MaxKeys keys: main has
\* fetched page 1 and the service has just returned the object.
\* ------------------------------------------------------------------------
InitWriter ==
    /\ pc = "write"
    /\ blocks \in { b \in SampleBlocks : Truthy(get_rating_criteria(b, FALSE)) }
    /\ status = [n \in Ids |-> "To be Rated"]
    /\ criteria = get_rating_criteria(blocks, FALSE)
    /\ responses_to_rate = Query(status, [n \in Ids |-> PromptOk @@ ResponseOk])
    /\ idx = 1
    /\ \E d \in RatingObjects :
          /\ rating = get_rating_from_ai(JsonReply(d))
          /\ log = << ListCall(TRUE), QueryCall(TRUE), RateCall(1, JsonReply(d)) >>
    /\ raised = "none"

SpecWriter == InitWriter /\ [][Writing]_vars

\* ------------------------------------------------------------------------
\* Vocabulary of the properties
\* ------------------------------------------------------------------------
Terminated == pc \in { "done", "crashed" }
Positions == DOMAIN responses_to_rate
IdAt(n) == responses_to_rate[n].id
FetchedIds == { IdAt(n) : n \in Positions }
PositionOf(id) == CHOOSE n \in Positions : IdAt(n) = id

RateCalls(id) == { n \in DOMAIN log : log[n].op = "rate" /\ log[n].id = id }
Updates(id) == { n \in DOMAIN log : log[n].op = "update" /\ log[n].id = id }
AllUpdates == { n \in DOMAIN log : log[n].op = "update" }
StatusWritten(n) == log[n].props[NameStatus].val.v
SetsOnlyError(n) ==
    /\ DOMAIN log[n].props = { NameStatus }
    /\ log[n].props[NameStatus] = [kind |-> "select", val |-> Str("Error")]

\* The prompt and the response can be read: both fields are present, under
\* their own type key, with at least one run.
Extractable(props) ==
    /\ "Prompt" \in DOMAIN props
    /\ "title" \in DOMAIN props["Prompt"]
    /\ props["Prompt"]["title"] # << >>
    /\ "AI Response" \in DOMAIN props
    /\ "rich_text" \in DOMAIN props["AI Response"]
    /\ props["AI Response"]["rich_text"] # << >>

\* The loop has attempted the extraction of the page at position n, and has
\* finished with it.
Attempted(n) == n < idx \/ (n = idx /\ pc # "extract")
Finished(n) == n < idx \/ (n = idx /\ pc = "crashed")

\* The rate call at log position n has been acted on by the driver.
Handled(n) == n < Len(log)

\* ------------------------------------------------------------------------
\* C1: a failure while processing one record is isolated to that record:
\* whatever external calls fail, the run ends normally and every fetched
\* record has had its extraction attempted.
\* ------------------------------------------------------------------------
C1_FailureIsolated ==
    Terminated =>
        /\ pc = "done"
        /\ \A n \in Positions : Attempted(n)

\* ------------------------------------------------------------------------
\* C2: update_notion_page never lets an exception reach the driver: a failed
\* primary update is followed by one update setting only Status = Error, and
\* a failure of that update is swallowed.
\* ------------------------------------------------------------------------
C2_WriterSwallowsFailures ==
    /\ raised # "update_notion_page:116"
    /\ \A n \in AllUpdates :
          (StatusWritten(n) = "Rated" /\ ~log[n].ok) =>
              /\ n + 1 \in Updates(log[n].id)
              /\ SetsOnlyError(n + 1)
              /\ (n + 2 \in DOMAIN log => log[n + 2].id # log[n].id)

\* ------------------------------------------------------------------------
\* C3: record status lifecycle.  Only Rated and Error are ever written, only
\* to fetched records, never Rated after Error nor Error after a successful
\* Rated write; and for a record the loop has finished with, whose Error
\* writes succeeded, Status is Rated exactly when extraction, rating and the
\* primary update all succeeded, and Error when one of them failed.
\* ------------------------------------------------------------------------
RatingReturned(id) == \E n \in RateCalls(id) : log[n].reply.kind = "json"
RatingFailed(id) == \E n \in RateCalls(id) : log[n].reply.kind # "json"
PrimarySucceeded(id) == \E n \in Updates(id) : StatusWritten(n) = "Rated" /\ log[n].ok
PrimaryFailed(id) == \E n \in Updates(id) : StatusWritten(n) = "Rated" /\ ~log[n].ok
ErrorWritesSucceeded(id) == \A n \in Updates(id) : StatusWritten(n) = "Error" => log[n].ok

C3_StatusLifecycle ==
    /\ \A n \in AllUpdates :
          /\ StatusWritten(n) \in { "Rated", "Error" }
          /\ log[n].id \in FetchedIds
    /\ \A m, n \in AllUpdates :
          (m < n /\ log[m].id = log[n].id) =>
              /\ ~(StatusWritten(m) = "Error" /\ StatusWritten(n) = "Rated")
              /\ ~(StatusWritten(m) = "Rated" /\ log[m].ok /\ StatusWritten(n) = "Error")
    /\ \A n \in Positions :
          LET id == IdAt(n)
              extracted == Extractable(responses_to_rate[n].properties)
          IN  (Finished(n) /\ ErrorWritesSucceeded(id)) =>
                 /\ status[id] = "Rated" <=>
                       (extracted /\ RatingReturned(id) /\ PrimarySucceeded(id))
                 /\ (~extracted \/ RatingFailed(id) \/ PrimaryFailed(id)) =>
                       status[id] = "Error"
                 /\ status[id] \in { "Rated", "Error" }

C3_Witness ==
    /\ pc = "done"
    /\ \E n \in Positions : status[IdAt(n)] = "Rated"
    /\ \E n \in Positions : PrimaryFailed(IdAt(n)) /\ status[IdAt(n)] = "Error"
    /\ \E id \in Ids : id \notin FetchedIds

C5_RatingFailureMarksError ==
    \A n \in DOMAIN log :
        (log[n].op = "rate" /\ log[n].reply.kind # "json") =>
            /\ (pc = "write" /\ ~Handled(n)) => rating = None
            /\ Handled(n) =>
                  /\ n + 1 \in Updates(log[n].id)
                  /\ SetsOnlyError(n + 1)
                  /\ status[log[n].id] = "Error"
                  /\ raised # "main:144"
            /\ \A u \in Updates(log[n].id) : StatusWritten(u) # "Rated"

\* ------------------------------------------------------------------------
\* C6: early abort.  With no criteria the run ends normally having made no
\* query, no rating request and no write; with an empty fetch result (no
\* unrated record, or a failed query) it ends normally having made no
\* rating request and no write.
\* ------------------------------------------------------------------------
C6_EarlyAbort ==
    /\ (pc # "start" /\ ~Truthy(criteria)) =>
          pc = "done" /\ Len(log) = 1 /\ log[1].op = "list"
    /\ (pc \notin { "start", "fetch" } /\ Truthy(criteria)
          /\ (responses_to_rate = << >> \/ ~log[2].ok)) =>
          pc = "done" /\ Len(log) = 2 /\ log[2].op = "query"

C6_Witness ==
    /\ pc = "done"
    /\ Truthy(criteria)
    /\ Len(log) = 2 /\ ~log[2].ok
    /\ \E id \in Ids : status[id] = "To be Rated"

\* ------------------------------------------------------------------------
\* C7: the update built from a rating object has one number field per key
\* ending in _score with an integer or floating-point value, named by the
\* title-cased, space-delimited key and holding that value, plus Evaluation
\* Notes (the object's evaluation_notes or the placeholder) and
\* Status = Rated, and no other field.
\* ------------------------------------------------------------------------
NumericScoreItems(d) ==
    { n \in DOMAIN d : EndsWith(d[n].k, ScoreSuffix) /\ d[n].v.t \in { "int", "float" } }

C7_ScoreFieldMapping ==
    (pc # "write" /\ Truthy(rating)) =>
        LET d == rating.val
            props == log[4].props
        IN  /\ DOMAIN props =
                   { NameNotes, NameStatus }
                   \cup { PropName(d[n].k) : n \in NumericScoreItems(d) }
            /\ Cardinality(DOMAIN props) = 2 + Cardinality(NumericScoreItems(d))
            /\ \A n \in NumericScoreItems(d) :
                  props[PropName(d[n].k)] = [kind |-> "number", val |-> d[n].v]
            /\ props[NameNotes] =
                  [kind |-> "rich_text", val |-> Get(d, KeyNotes, Str("N/A"))]
            /\ props[NameStatus] = [kind |-> "select", val |-> Str("Rated")]

\* ------------------------------------------------------------------------
\* C8: records are processed one after the other in fetch order, without
\* retries: the calls for a record precede every call for a later record,
\* and a record gets at most one rating request and at most two writes.
\* ------------------------------------------------------------------------
RecordCalls == { n \in DOMAIN log : log[n].op \in { "rate", "update" } }

C8_SequentialNoRetry ==
    /\ \A m, n \in RecordCalls :
          m < n => PositionOf(log[m].id) <= PositionOf(log[n].id)
    /\ \A n \in RecordCalls : PositionOf(log[n].id) <= idx
    /\ \A id \in FetchedIds :
          /\ Cardinality(RateCalls(id)) <= 1
          /\ Cardinality(Updates(id)) <= 2

C8_Witness ==
    /\ pc = "done"
    /\ Len(responses_to_rate) >= 2
    /\ \A id \in FetchedIds : Cardinality(RateCalls(id)) = 1
    /\ \E id \in FetchedIds : Cardinality(Updates(id)) = 2

\* ------------------------------------------------------------------------
\* C9: the criteria loader.  The text of a page is the newline-join of the
\* runs of its textual blocks, in document order.
\* ------------------------------------------------------------------------
Front(s) == SubSeq(s, 1, Len(s) - 1)
Last(s) == s[Len(s)]

RECURSIVE PageRuns(_)
PageRuns(bs) ==
    IF bs = << >> THEN << >>
    ELSE PageRuns(Front(bs)) \o (IF Last(bs).textual THEN Last(bs).rich_text ELSE << >>)

RECURSIVE NewlineJoin(_)
NewlineJoin(runs) ==
    IF runs = << >> THEN << >>
    ELSE IF Len(runs) = 1 THEN runs[1]
    ELSE NewlineJoin(Front(runs)) \o << "\n" >> \o Last(runs)

PageText == NewlineJoin(PageRuns(blocks))
Blank(s) == \A n \in DOMAIN s : s[n] \in Whitespace
Loaded == pc # "start" /\ log[1].ok

\* C9 as stated: for every non-empty block list the loader returns the
\* newline-join of the runs.
C9_LoaderReturnsJoin ==
    (Loaded /\ blocks # << >>) => criteria = Some(PageText)

\* C9 amended: the loader returns the newline-join of the runs when that
\* text has a non-whitespace character, and absent when it is empty or
\* whitespace only.
C9_LoaderReturnsJoinUnlessBlank ==
    Loaded => criteria = IF Blank(PageText) THEN None ELSE Some(PageText)

C9_Witness ==
    /\ Loaded
    /\ Len(blocks) = 2
    /\ ~blocks[1].textual
    /\ criteria = Some(<< "a", "\n", "b" >>)

\* ------------------------------------------------------------------------
\* C10: the driver takes the Error path only when the rating engine returns
\* absent: every parsed JSON object, also one without scores and without
\* evaluation_notes, goes to the result writer, which writes Status = Rated
\* with the placeholder notes.
\* ------------------------------------------------------------------------
C10_ParsedObjectIsWritten ==
    \A n \in DOMAIN log :
        (log[n].op = "rate" /\ log[n].reply.kind = "json" /\ Handled(n)) =>
            /\ n + 1 \in Updates(log[n].id)
            /\ StatusWritten(n + 1) = "Rated"
            /\ ~HasKey(log[n].reply.obj, KeyNotes) =>
                  log[n + 1].props[NameNotes].val = Str("N/A")

====
